---- MODULE Spec2Model ----
(***************************************************************************)
(* Model of listener/raw_tcp_listener.go (RAWTCPListener): the startup in  *)
(* RAWTCPListen/startSniffer, the capture loop readRAWSocket, the          *)
(* dispatcher loop listen with processTCPPacket, and Receive.              *)
(*                                                                         *)
(* TCPMessage lives in tcp_message.go; its behaviour (append, inactivity   *)
(* watchdog, exactly-once disposition) is modelled from the specification, *)
(* sections 3, 4.4 and 9.                                                  *)
(***************************************************************************)
EXTENDS Naturals, Sequences, FiniteSets

(* ------------------------------ bounds --------------------------------- *)

\* number of frames the capture handle yields in one run
MaxPackets == 3
\* capacity of c_packets (make(chan *pcap.Packet, 100)), scaled down
CPacketsCap == 1
\* capacity of c_messages (make(chan *TCPMessage, 100)), scaled down
CMessagesCap == 1
\* capacity of c_del_message (make(chan *TCPMessage, 100)), scaled down
CDelCap == 1

(* --------------------------- configuration ----------------------------- *)

\* the port handed to RAWTCPListen (listener.port = port)
ListenPort == 80
\* some other destination port seen on the wire
OtherPort == ListenPort + 1
\* pcap.TCP_PSH, the push bit of the TCP flags
TCP_PSH == 8
\* pcap.TCP_ACK, a flag bit other than the push bit
TCP_ACK == 2 * TCP_PSH

FlagValues == {TCP_ACK, TCP_ACK + TCP_PSH}
\* acknowledgment numbers seen on the wire (uint32 in the source)
Acks == {1, 2}
\* results pcap.Findalldevs() may give
DeviceLists == {{}, {"lo"}, {"lo", "eth0"}}
\* values of Settings.Device
DeviceNames == {"", "eth0", "wlan9"}

NoPacket == [id |-> 0, kind |-> "none", DestPort |-> 0, Flags |-> 0, Ack |-> 0]

\* what t.sniffer.Next() followed by pkt.Decode() can give: no packet, a frame
\* with fewer than two headers, a frame whose second header is not TCP, a TCP
\* segment for another port (with the push flag), and TCP segments for the
\* listened port with and without the push flag
Frames(n) ==
    {[id |-> n, kind |-> k, DestPort |-> 0, Flags |-> 0, Ack |-> 0] :
        k \in {"nil", "short", "udp"}}
    \cup
    {[id |-> n, kind |-> "tcp", DestPort |-> OtherPort, Flags |-> TCP_ACK + TCP_PSH,
      Ack |-> a] : a \in {1}}
    \cup
    {[id |-> n, kind |-> "tcp", DestPort |-> ListenPort, Flags |-> f, Ack |-> a] :
        f \in FlagValues, a \in Acks}

VARIABLES
    phase,          \* "new", "running" (both loops started), "exited"
    exit,           \* why the process ended: "", "devlist", "nodevice", "nilhandle"
    devices,        \* result of pcap.Findalldevs()
    SettingsDevice, \* Settings.Device
    filter,         \* "unset", "installed", "failed" (result of h.Setfilter, ignored)
    nread,          \* frames taken from the sniffer so far
    pkt,            \* pkt of readRAWSocket: the frame read last
    c_packets,      \* t.c_packets
    c_messages,     \* t.c_messages
    c_del_message,  \* t.c_del_message
    messages,       \* t.messages: Ack -> TCPMessage (by identity)
    heap,           \* the TCPMessage objects ever constructed, by identity
    dpc,            \* where listen() is: "select", "send_message", "send_packet"
    held,           \* what listen() holds while blocked on a send
    processed,      \* history: packets in the order processTCPPacket took them
    received,       \* history: what Receive returned, in order
    captured,       \* history: the TCP segments for the listened port read so far
    tableUsers      \* history: the processes that have read or written t.messages

vars == <<phase, exit, devices, SettingsDevice, filter, nread, pkt, c_packets,
          c_messages, c_del_message, messages, heap, dpc, held, processed, received,
          captured, tableUsers>>

startup == <<phase, exit, devices, SettingsDevice, filter>>

capture == <<nread, pkt, captured>>

MsgIds == 1..Len(heap)

(* ------------------------------ startup -------------------------------- *)

Init ==
    /\ phase = "new"
    /\ exit = ""
    /\ devices = {}
    /\ SettingsDevice \in DeviceNames
    /\ filter = "unset"
    /\ nread = 0
    /\ pkt = NoPacket
    /\ c_packets = <<>>
    /\ c_messages = <<>>
    /\ c_del_message = <<>>
    /\ messages = <<>>
    /\ heap = <<>>
    /\ dpc = "select"
    /\ held = [msg |-> 0, pkt |-> NoPacket]
    /\ processed = <<>>
    /\ received = <<>>
    /\ captured = <<>>
    /\ tableUsers = {}

\* a search that takes the first device of the list without comparing names
networkInterfaceFirst(devs, name) ==
    IF devs # {} THEN CHOOSE d \in devs : TRUE ELSE ""

\* for _, device := range devices { if device.Name == Settings.Device {...} }
networkInterface(devs, name) ==
    IF name \in devs THEN name ELSE ""

\* startSniffer: the reason the process ends in it, or "" when it returns
startSniffer(findErr, devs, name, openErr) ==
    IF findErr THEN "devlist"
    ELSE IF networkInterface(devs, name) = "" THEN "nodevice"
    ELSE IF openErr THEN "nilhandle"   \* h is nil: h.Setfilter runs before err is tested
    ELSE ""

\* RAWTCPListen: make the channels and the table, startSniffer, then go listen()
\* and go readRAWSocket()
RAWTCPListen ==
    /\ phase = "new"
    /\ \E findErr \in BOOLEAN, devs \in DeviceLists, openErr \in BOOLEAN,
          filterErr \in BOOLEAN :
        LET why == startSniffer(findErr, devs, SettingsDevice, openErr) IN
        /\ devices' = (IF findErr THEN {} ELSE devs)
        /\ exit' = why
        /\ phase' = (IF why = "" THEN "running" ELSE "exited")
        /\ filter' = (IF why # "" THEN "unset"
                      ELSE IF filterErr THEN "failed" ELSE "installed")
    /\ UNCHANGED <<tableUsers, SettingsDevice, capture, c_packets, c_messages, c_del_message,
                   messages, heap, dpc, held, processed, received>>

(* ---------------------------- capture loop ----------------------------- *)

\* a flag test that every segment passes
HasPSHAlways(flags) == TRUE

\* (header.Flags & pcap.TCP_PSH) != 0
HasPSH(flags) == (flags \div TCP_PSH) % 2 = 1

\* a TCP segment whose destination port is the listened port
ForListener(p) == p.kind = "tcp" /\ p.DestPort = ListenPort

\* the tests without the comparison of the destination port
AcceptedAnyPort(p) ==
    /\ p.kind = "tcp"
    /\ (p.Flags \div TCP_PSH) % 2 = 1

\* the tests without the test of the push flag
AcceptedAnyFlags(p) ==
    /\ p.kind = "tcp"
    /\ p.DestPort = ListenPort

\* the tests of readRAWSocket a frame has to pass to be sent on c_packets
Accepted(p) ==
    /\ p.kind # "nil"                    \* pkt == nil
    /\ p.kind # "short"                  \* len(pkt.Headers) < 2
    /\ p.kind = "tcp"                    \* case *pcap.Tcphdr
    /\ p.DestPort = ListenPort
    /\ HasPSH(p.Flags)

\* one iteration of the loop of readRAWSocket; the send on c_packets blocks
\* while the channel is full
readRAWSocket ==
    /\ phase = "running"
    /\ nread < MaxPackets
    /\ \E p \in Frames(nread + 1) :
        /\ Accepted(p) => Len(c_packets) < CPacketsCap
        /\ pkt' = p
        /\ captured' = (IF ForListener(p) THEN Append(captured, p) ELSE captured)
        /\ c_packets' = (IF Accepted(p) THEN Append(c_packets, p) ELSE c_packets)
    /\ nread' = nread + 1
    /\ UNCHANGED <<tableUsers, startup, c_messages, c_del_message, messages, heap, dpc, held,
                   processed, received>>

(* ----------------------------- TCPMessage ------------------------------ *)

\* NewTCPMessage(ack, t.c_del_message)
NewTCPMessage(ack) ==
    [Ack |-> ack, buf |-> <<>>, status |-> "Building", inbox |-> NoPacket,
     pending |-> "none", reports |-> 0]

\* the message's goroutine can take a packet from its c_packets
Ready(m) == m.inbox = NoPacket /\ m.pending # "append"

\* append(packet): add the payload; a push packet completes a message that is
\* still being built, and the message then reports itself
AddPacket(m, p) ==
    LET done == HasPSH(p.Flags) /\ m.status = "Building" IN
    [m EXCEPT !.buf = Append(@, p.id),
              !.inbox = NoPacket,
              !.status = IF done THEN "Completed" ELSE @,
              !.pending = IF done THEN "append" ELSE @]

\* the inactivity watchdog fires
Expire(m) == [m EXCEPT !.status = "Expired", !.pending = "watchdog"]

MsgAppend(i) ==
    /\ phase = "running"
    /\ i \in MsgIds
    /\ heap[i].inbox # NoPacket
    /\ heap' = [heap EXCEPT ![i] = AddPacket(heap[i], heap[i].inbox)]
    /\ UNCHANGED <<tableUsers, startup, capture, c_packets, c_messages, c_del_message,
                   messages, dpc, held, processed, received>>

Timeout(i) ==
    /\ phase = "running"
    /\ i \in MsgIds
    /\ heap[i].status = "Building"
    /\ heap' = [heap EXCEPT ![i] = Expire(heap[i])]
    /\ UNCHANGED <<tableUsers, startup, capture, c_packets, c_messages, c_del_message,
                   messages, dpc, held, processed, received>>

\* c_del_message <- t, blocking while the channel is full
MsgReport(i) ==
    /\ phase = "running"
    /\ i \in MsgIds
    /\ heap[i].pending # "none"
    /\ Len(c_del_message) < CDelCap
    /\ c_del_message' = Append(c_del_message, i)
    /\ heap' = [heap EXCEPT ![i].pending = "none", ![i].reports = @ + 1]
    /\ UNCHANGED <<tableUsers, startup, capture, c_packets, c_messages, messages, dpc, held,
                   processed, received>>

(* ----------------------------- dispatcher ------------------------------ *)

\* listen() holds nothing
Nothing == [msg |-> 0, pkt |-> NoPacket]

\* a lookup that never finds the entry
AbsentAlways(tbl, ack) == TRUE

\* message, ok := t.messages[ack]; if !ok { ... }
Absent(tbl, ack) == ack \notin DOMAIN tbl

\* an insertion that leaves the table as it was
RegisterNothing(tbl, ack, i) == tbl

\* t.messages[ack] = message
Register(tbl, ack, i) == [a \in DOMAIN tbl \cup {ack} |-> IF a = ack THEN i ELSE tbl[a]]

\* a delete that empties the table
DeleteAll(tbl, ack) == <<>>

\* a delete that leaves the table as it was
DeleteNothing(tbl, ack) == tbl

\* delete(t.messages, message.Ack)
Delete(tbl, ack) == [a \in DOMAIN tbl \ {ack} |-> tbl[a]]

\* takes an entry of the table instead of the message that reported
NextDeletedFromTable(q) ==
    IF DOMAIN messages = {} THEN Head(q)
    ELSE messages[CHOOSE a \in DOMAIN messages : \A b \in DOMAIN messages : a <= b]

\* message := <-t.c_del_message
NextDeleted(q) == Head(q)

\* a receive that leaves the message in the channel
RestKeep(q) == q

\* what is left in the channel after a receive
Rest(q) == Tail(q)

\* t.c_messages <- message ; delete(t.messages, message.Ack)
Finish(i) ==
    /\ c_messages' = Append(c_messages, i)
    /\ messages' = Delete(messages, heap[i].Ack)

\* case message := <-t.c_del_message: the send on c_messages blocks while the
\* channel is full, with the message taken and the table entry still there
ListenDel ==
    /\ phase = "running"
    /\ dpc = "select"
    /\ c_del_message # <<>>
    /\ LET i == NextDeleted(c_del_message) IN
        /\ c_del_message' = Rest(c_del_message)
        /\ IF Len(c_messages) < CMessagesCap
           THEN /\ Finish(i)
                /\ tableUsers' = tableUsers \cup {"listen"}
                /\ UNCHANGED <<dpc, held>>
           ELSE /\ dpc' = "send_message"
                /\ held' = [msg |-> i, pkt |-> NoPacket]
                /\ UNCHANGED <<c_messages, messages, tableUsers>>
    /\ UNCHANGED <<startup, capture, c_packets, heap, processed, received>>

\* the blocked send on c_messages goes through, then the delete
ListenDelResume ==
    /\ phase = "running"
    /\ dpc = "send_message"
    /\ Len(c_messages) < CMessagesCap
    /\ Finish(held.msg)
    /\ dpc' = "select"
    /\ held' = Nothing
    /\ tableUsers' = tableUsers \cup {"listen"}
    /\ UNCHANGED <<startup, capture, c_packets, c_del_message, heap, processed,
                   received>>

\* case packet := <-t.c_packets: t.processTCPPacket(packet). The send on
\* message.c_packets blocks until the message's goroutine takes the packet.
processTCPPacket ==
    /\ phase = "running"
    /\ dpc = "select"
    /\ c_packets # <<>>
    /\ LET p == Head(c_packets)
           ack == p.Ack
           fresh == Absent(messages, ack)
           i == IF fresh THEN Len(heap) + 1 ELSE messages[ack]
           objs == IF fresh THEN Append(heap, NewTCPMessage(ack)) ELSE heap
       IN
        /\ c_packets' = Tail(c_packets)
        /\ messages' = (IF fresh THEN Register(messages, ack, i) ELSE messages)
        /\ processed' = Append(processed, [pid |-> p.id, ack |-> ack, msg |-> i])
        /\ IF Ready(objs[i])
           THEN /\ heap' = [objs EXCEPT ![i].inbox = p]
                /\ UNCHANGED <<dpc, held>>
           ELSE /\ heap' = objs
                /\ dpc' = "send_packet"
                /\ held' = [msg |-> i, pkt |-> p]
    /\ tableUsers' = tableUsers \cup {"listen"}
    /\ UNCHANGED <<startup, capture, c_messages, c_del_message, received>>

\* the blocked send on message.c_packets goes through
SendPacketResume ==
    /\ phase = "running"
    /\ dpc = "send_packet"
    /\ Ready(heap[held.msg])
    /\ heap' = [heap EXCEPT ![held.msg].inbox = held.pkt]
    /\ dpc' = "select"
    /\ held' = Nothing
    /\ UNCHANGED <<tableUsers, startup, capture, c_packets, c_messages, c_del_message,
                   messages, processed, received>>

(* ------------------------------- Receive ------------------------------- *)

\* a Receive that also clears the table entry of the message it returns
ReceiveAndDelete ==
    /\ phase = "running"
    /\ c_messages # <<>>
    /\ received' = Append(received, Head(c_messages))
    /\ c_messages' = Tail(c_messages)
    /\ messages' = Delete(messages, heap[Head(c_messages)].Ack)
    /\ tableUsers' = tableUsers \cup {"Receive"}
    /\ UNCHANGED <<startup, capture, c_packets, c_del_message, heap, dpc, held,
                   processed>>

\* return <-t.c_messages
Receive ==
    /\ phase = "running"
    /\ c_messages # <<>>
    /\ received' = Append(received, Head(c_messages))
    /\ c_messages' = Tail(c_messages)
    /\ UNCHANGED <<tableUsers, startup, capture, c_packets, c_del_message, messages, heap,
                   dpc, held, processed>>

(* --------------------------- specifications ---------------------------- *)

Next ==
    \/ RAWTCPListen
    \/ readRAWSocket
    \/ ListenDel
    \/ ListenDelResume
    \/ processTCPPacket
    \/ SendPacketResume
    \/ Receive
    \/ \E i \in MsgIds : MsgAppend(i)
    \/ \E i \in MsgIds : Timeout(i)
    \/ \E i \in MsgIds : MsgReport(i)

Spec == Init /\ [][Next]_vars

\* Every goroutine that can take a step is scheduled: the capture loop, the
\* dispatcher (whose select picks at random among the ready cases), each
\* message's goroutine and watchdog; and the caller keeps calling Receive.
Fairness ==
    /\ WF_vars(RAWTCPListen)
    /\ WF_vars(readRAWSocket)
    /\ SF_vars(ListenDel)
    /\ SF_vars(processTCPPacket)
    /\ WF_vars(ListenDelResume)
    /\ WF_vars(SendPacketResume)
    /\ WF_vars(Receive)
    /\ \A i \in 1..MaxPackets :
         /\ WF_vars(MsgAppend(i))
         /\ WF_vars(Timeout(i))
         /\ SF_vars(MsgReport(i))

FairSpec == Spec /\ Fairness

(* ------------------------------ helpers -------------------------------- *)

Range(q) == {q[k] : k \in 1..Len(q)}

\* the message has been put on c_messages by the dispatcher
Delivered(i) == i \in Range(c_messages) \cup Range(received)

\* constructed, not yet handed to the delivery queue
InFlight(i) == i \in MsgIds /\ ~Delivered(i)

\* the packets routed to message i, in the order the dispatcher took them
Routed(i) ==
    LET sel == SelectSeq(processed, LAMBDA r : r.msg = i)
    IN [k \in 1..Len(sel) |-> sel[k].pid]

(* ------------------------------- claims -------------------------------- *)

\* C1: at any instant there is at most one TCPMessage under construction per
\* acknowledgment number: two messages not yet handed to the delivery queue
\* never share an Ack, every table entry is such a message filed under its own
\* Ack, and every packet was routed to a message of the packet's Ack.
C1_OneMessagePerFlowKey ==
    /\ \A i, j \in MsgIds :
         (InFlight(i) /\ InFlight(j) /\ heap[i].Ack = heap[j].Ack) => i = j
    /\ \A a \in DOMAIN messages :
         /\ InFlight(messages[a])
         /\ heap[messages[a]].Ack = a
    /\ \A k \in 1..Len(processed) :
         /\ processed[k].msg \in MsgIds
         /\ heap[processed[k].msg].Ack = processed[k].ack

\* a second packet for an Ack was routed to the entry already in the table
C1_Witness ==
    \E a \in DOMAIN messages : Len(Routed(messages[a])) >= 2

\* C2: every acknowledgment number entered in the message table is removed
\* from it at some later point.
C2_EveryFlowKeyRemoved ==
    \A a \in Acks : (a \in DOMAIN messages) ~> (a \notin DOMAIN messages)

\* the message waits on c_del_message or is held by listen(), which is blocked
\* on the send to c_messages
InHands(i) ==
    \/ i \in Range(c_del_message)
    \/ dpc = "send_message" /\ held.msg = i

\* how often message i occurs in the sequence q
Occurrences(q, i) == Cardinality({k \in 1..Len(q) : q[k] = i})

\* C3: a message that reported its disposition is never dropped: it waits on
\* the completion queue, is held by the dispatcher, or has been delivered; and
\* the dispatcher step that lets it go appends it to the delivery queue and
\* leaves the table without an entry for its Ack, whatever its status.
C3_TakenIsDeliveredAndRemoved ==
    /\ [](\A i \in MsgIds : heap[i].reports > 0 => (InHands(i) \/ Delivered(i)))
    /\ [][\A i \in MsgIds :
            (InHands(i) /\ ~InHands(i)') =>
                /\ c_messages' = Append(c_messages, i)
                /\ heap[i].Ack \notin DOMAIN messages']_vars

\* an expired message has been delivered and its Ack is gone from the table
C3_Witness ==
    \E i \in MsgIds :
        /\ heap[i].status = "Expired"
        /\ Delivered(i)
        /\ heap[i].Ack \notin DOMAIN messages

\* C4: every message Receive returned, and every message on the delivery
\* queue, is Completed or Expired and has reported exactly once; a message
\* that is still Building is in neither.
C4_ReceiveOnlyFinished ==
    \A i \in MsgIds :
        Delivered(i) =>
            /\ heap[i].status \in {"Completed", "Expired"}
            /\ heap[i].pending = "none"
            /\ heap[i].reports = 1

\* Receive has returned a message while another one is still being built
C4_Witness ==
    /\ received # <<>>
    /\ \E i \in MsgIds : heap[i].status = "Building" /\ heap[i].inbox # NoPacket

C6_Wanted(p) ==
    /\ p.kind = "tcp"
    /\ p.DestPort = ListenPort
    /\ p.Flags \in {TCP_PSH, TCP_PSH + TCP_ACK}

\* C6: a frame read by the capture loop is appended to the capture queue if
\* and only if it is a TCP segment for the listened port with the push flag;
\* any other frame leaves the queue as it was, and every packet on the queue
\* or taken by the dispatcher is such a segment.
C6_QueuedIffPortAndPush ==
    /\ [][pkt' # pkt =>
            IF C6_Wanted(pkt') THEN c_packets' = Append(c_packets, pkt')
                               ELSE c_packets' = c_packets]_vars
    /\ [](\A k \in 1..Len(c_packets) : C6_Wanted(c_packets[k]))
    /\ [](\A k \in 1..Len(processed) :
            \E c \in Range(captured) : c.id = processed[k].pid /\ C6_Wanted(c))

\* a segment for the listened port without the push flag was read and dropped
\* while an accepted one waits on the queue
C6_Witness ==
    /\ pkt.kind = "tcp"
    /\ pkt.DestPort = ListenPort
    /\ pkt.Flags = TCP_ACK
    /\ c_packets # <<>>
    /\ \A k \in 1..Len(c_packets) : c_packets[k].id # pkt.id

\* the payloads message i has or is about to get: its buffer, the packet its
\* goroutine has taken, the packet listen() is blocked sending to it
Arrived(i) ==
    heap[i].buf
    \o (IF heap[i].inbox # NoPacket THEN <<heap[i].inbox.id>> ELSE <<>>)
    \o (IF dpc = "send_packet" /\ held.msg = i THEN <<held.pkt.id>> ELSE <<>>)

Flow(a) == SelectSeq(captured, LAMBDA c : c.Ack = a)

\* exactly two packets of flow a were captured, the first without and the
\* second with the push flag
C8_Scenario(a) ==
    /\ Len(Flow(a)) = 2
    /\ Flow(a)[1].Flags = TCP_ACK
    /\ Flow(a)[2].Flags = TCP_ACK + TCP_PSH

\* C8 as stated: in that scenario a message Receive returned for the flow
\* holds the first payload followed by the second and is Completed.
C8_Original ==
    \A a \in Acks :
        C8_Scenario(a) =>
            \A i \in Range(received) :
                heap[i].Ack = a =>
                    /\ heap[i].buf = <<Flow(a)[1].id, Flow(a)[2].id>>
                    /\ heap[i].status = "Completed"

\* C8 (amended): in that scenario the capture loop drops the first packet; a
\* message Receive returned for the flow holds no payload but the second, and
\* when its status is Completed its buffer is exactly the second payload.
C8_OnlyPushPayloadDelivered ==
    \A a \in Acks :
        C8_Scenario(a) =>
            \A i \in Range(received) :
                heap[i].Ack = a =>
                    /\ heap[i].buf \in {<<>>, <<Flow(a)[2].id>>}
                    /\ heap[i].status = "Completed" => heap[i].buf = <<Flow(a)[2].id>>

\* the scenario happened and Receive returned the Completed message with the
\* second payload
C8_Witness ==
    \E a \in Acks :
        /\ C8_Scenario(a)
        /\ \E i \in Range(received) :
            /\ heap[i].Ack = a
            /\ heap[i].status = "Completed"
            /\ heap[i].buf = <<Flow(a)[2].id>>

\* the capture has ended, and the one packet captured for flow a had no push
\* flag
C9_Scenario(a) ==
    /\ nread = MaxPackets
    /\ Len(Flow(a)) = 1
    /\ Flow(a)[1].Flags = TCP_ACK

\* C9 as stated: in that scenario Receive eventually returns an Expired
\* message whose buffer is that one payload.
C9_Original ==
    \A a \in Acks :
        C9_Scenario(a) ~>
            (\E i \in Range(received) :
                /\ heap[i].Ack = a
                /\ heap[i].status = "Expired"
                /\ heap[i].buf = <<Flow(a)[1].id>>)

\* C9 (amended): when the one packet captured for a flow has no push flag, the
\* capture loop drops it: the packet is not on the capture queue, no
\* TCPMessage exists for the flow, and Receive returns nothing for it.
C9_UnpushedPacketDropped ==
    \A a \in Acks :
        (Len(Flow(a)) = 1 /\ Flow(a)[1].Flags = TCP_ACK) =>
            /\ \A k \in 1..Len(c_packets) : c_packets[k].Ack # a
            /\ a \notin DOMAIN messages
            /\ \A i \in MsgIds : heap[i].Ack # a

\* the scenario happened while Receive returned a message of another flow
C9_Witness ==
    \E a \in Acks : C9_Scenario(a) /\ received # <<>>

C11_StartupFailureTerminates ==
    /\ (phase # "new" /\ SettingsDevice \notin devices) => phase = "exited"
    /\ exit = "nilhandle" => phase = "exited"
    /\ filter = "failed" => phase = "exited"

\* the message has been constructed and has not yet sent itself on
\* c_del_message
Unreported(i) == i \in MsgIds /\ heap[i].reports = 0

\* C12 as stated: the keys of the table are the acknowledgment numbers of the
\* messages that have not yet reported.
C12_Original ==
    DOMAIN messages = {heap[i].Ack : i \in {j \in MsgIds : Unreported(j)}}

\* C12 (amended): the keys of the table are the acknowledgment numbers of the
\* messages the dispatcher has not yet handed to the delivery queue, each key
\* filed with that message; a message that reported stays in the table until
\* the dispatcher handles the report.
C12_TableIsUnfinishedMessages ==
    /\ DOMAIN messages = {heap[i].Ack : i \in {j \in MsgIds : InFlight(j)}}
    /\ \A i \in MsgIds : InFlight(i) => messages[heap[i].Ack] = i

\* a message that has reported is still in the table, and the dispatcher has
\* routed a further packet to it
C12_Witness ==
    \E a \in DOMAIN messages :
        /\ heap[messages[a]].reports = 1
        /\ heap[messages[a]].inbox # NoPacket

\* packet k waits on the capture queue
Waiting(k) == \E n \in 1..Len(c_packets) : c_packets[n].id = k

\* the dispatcher has taken packet k
Taken(k) == \E n \in 1..Len(processed) : processed[n].pid = k

\* C13: the dispatcher starves neither queue: a message waiting on the
\* completion queue is eventually taken from it, and a packet waiting on the
\* capture queue is eventually taken by the dispatcher.
C13_NoQueueStarved ==
    /\ \A i \in 1..MaxPackets :
         (i \in Range(c_del_message)) ~> (i \notin Range(c_del_message))
    /\ \A k \in 1..MaxPackets : Waiting(k) ~> Taken(k)

\* a step of the dispatcher loop listen()
DispatcherStep == ListenDel \/ ListenDelResume \/ processTCPPacket

\* C14: only the dispatcher loop reads or writes the message table: no other
\* process is among those that have used t.messages, and a step that changes
\* the table is a step of listen(); the capture loop, the messages' goroutines
\* and watchdogs, and Receive leave it as it is.
C14_OnlyDispatcherWritesTable ==
    /\ [](tableUsers \subseteq {"listen"})
    /\ [][messages' # messages => DispatcherStep]_vars

\* the capture loop, a watchdog and Receive have all run while the table
\* holds an entry
C14_Witness ==
    /\ DOMAIN messages # {}
    /\ tableUsers = {"listen"}
    /\ nread = MaxPackets
    /\ received # <<>>
    /\ \E i \in MsgIds : heap[i].status = "Expired"

\* the table entries of the keys other than a are what they were
OthersKept(a) ==
    \A b \in DOMAIN messages \ {a} : b \in DOMAIN messages' /\ messages'[b] = messages[b]

\* C15: a dispatcher step changes only the table entry of the FlowKey it
\* handles. Taking a packet with Ack a leaves every entry in place and adds
\* at most the entry for a; handing message i to the delivery queue removes
\* at most the entry for i's Ack; every other entry, and the table in every
\* other step, stays as it is.
C15_OnlyHandledKeyChanges ==
    [][/\ processed' # processed =>
            LET a == processed'[Len(processed')].ack IN
            /\ DOMAIN messages' = DOMAIN messages \cup {a}
            /\ a \in DOMAIN messages => messages'[a] = messages[a]
            /\ OthersKept(a)
       /\ Len(c_messages') > Len(c_messages) =>
            LET i == c_messages'[Len(c_messages')] IN
            /\ DOMAIN messages' = DOMAIN messages \ {heap[i].Ack}
            /\ OthersKept(heap[i].Ack)
       /\ (processed' = processed /\ Len(c_messages') <= Len(c_messages)) =>
            messages' = messages]_vars

\* a message has expired and been delivered while the message of another
\* flow is still in the table, unfinished
C15_Witness ==
    \E i \in MsgIds :
        /\ heap[i].status = "Expired"
        /\ Delivered(i)
        /\ \E a \in DOMAIN messages :
            /\ a # heap[i].Ack
            /\ InFlight(messages[a])
            /\ messages[a] < i

\* C16: when the dispatcher hands message i to the delivery queue and deletes
\* the entry of i's Ack, the entry under that key is i itself, and every
\* other unfinished message still has its entry afterwards: the delete never
\* removes a newer message made for the same acknowledgment number.
C16_DeleteRemovesTheReporter ==
    [][Len(c_messages') > Len(c_messages) =>
        LET i == c_messages'[Len(c_messages')] IN
        /\ heap[i].Ack \in DOMAIN messages
        /\ messages[heap[i].Ack] = i
        /\ \A j \in MsgIds \ {i} :
             InFlight(j) =>
                /\ heap[j].Ack \in DOMAIN messages'
                /\ messages'[heap[j].Ack] = j]_vars

\* a message was delivered and deleted, and a newer message made for the same
\* acknowledgment number is in the table
C16_Witness ==
    \E i, j \in MsgIds :
        /\ i < j
        /\ heap[i].Ack = heap[j].Ack
        /\ Delivered(i)
        /\ heap[j].Ack \in DOMAIN messages
        /\ messages[heap[j].Ack] = j

\* listen() is blocked sending a packet to a message whose goroutine is
\* blocked sending the message on the full c_del_message. Only listen()
\* receives from c_del_message, so neither send can ever go through.
CircularWait ==
    /\ dpc = "send_packet"
    /\ heap[held.msg].pending = "append"
    /\ Len(c_del_message) >= CDelCap

\* C17: the pipeline does not deadlock: the dispatcher is never blocked on
\* the send to a message's packet channel while that message is blocked
\* reporting on a full completion queue.
C17_NoDeadlock == ~CircularWait

\* the captured segment with id k
Segment(k) == CHOOSE c \in Range(captured) : c.id = k

\* C18: every packet routed to a TCPMessage is a captured segment for the
\* listened port with the push flag: each message was made for such a packet,
\* and its buffer, the packet its goroutine holds and the packet the
\* dispatcher is sending to it are all such packets.
C18_OnlyPushPacketsRouted ==
    \A i \in MsgIds :
        /\ Routed(i) # <<>>
        /\ \A n \in 1..Len(Routed(i) \o Arrived(i)) :
            LET k == (Routed(i) \o Arrived(i))[n] IN
            /\ \E c \in Range(captured) : c.id = k
            /\ Segment(k).DestPort = ListenPort
            /\ Segment(k).Flags = TCP_ACK + TCP_PSH
            /\ Segment(k).Ack = heap[i].Ack

\* a message holds a payload of its flow although an earlier segment of the
\* same flow, without the push flag, was captured before
C18_Witness ==
    \E i \in MsgIds :
        /\ heap[i].buf # <<>>
        /\ \E c \in Range(captured) :
            /\ c.Ack = heap[i].Ack
            /\ c.Flags = TCP_ACK
            /\ c.id < heap[i].buf[1]

====
